---- MODULE Spec2Model ----
(***************************************************************************)
(* WorkspaceConfig of src/extensions/workspace-config/workspace-config.ts: *)
(* resolution of a workspace configuration from bit.jsonc or from the      *)
(* legacy configuration, per-component override resolution, persistence    *)
(* and the partition of the settings into extension namespaces.            *)
(*                                                                         *)
(* JavaScript values are encoded as follows.  An object is a function from *)
(* its own keys to values (<<>> is the empty object), an absent property   *)
(* is a key outside the DOMAIN, the value undefined is the string Undef,   *)
(* and an optional reference is a flag (hasData, hasLegacy, exists) next   *)
(* to a value that is only read when the flag is set.  Compiler and tester *)
(* ids are non-empty strings, so every id other than Undef is truthy.      *)
(***************************************************************************)
EXTENDS Integers, Sequences, FiniteSets, TLC

VARIABLES fs, cfg, call, out, pending, written, budget

vars == <<fs, cfg, call, out, pending, written, budget>>

\* ------------------------------------------------------------------ bounds

\* Number of operations that build an instance, set its path or start an
\* asynchronous call (loadIfExist, ensure, write) in one run; the queries
\* (getComponentConfig, getCoreExtensionsConfig, toVinyl) are not counted.
MaxCalls == 3

\* Number of asynchronous calls the two concurrent callers start together.
MaxConcCalls == 2

\* ------------------------------------------------------------- small domains

Dirs == {"A", "B"}
NoDir == ""
Callers == {"c1", "c2"}
ComponentIds == {"x", "y"}

Undef == "undefined"
EmptyObj == <<>>
EmptyPath == <<>>

BIT_JSONC == "bit.jsonc"
LEGACY_FILE == "bit.json"

\* Property read obj[key] of JavaScript: undefined when the key is absent.
Get(obj, key) == IF key \in DOMAIN obj THEN obj[key] ELSE Undef

\* a || b of JavaScript on ids.
OrElse(a, b) == IF a # Undef THEN a ELSE b

\* ------------------------------------------------------------------- paths

\* Faulty variant of composeBitJsoncPath: the directory is dropped and the
\* file is looked for in one fixed place.
composeBitJsoncPathFixed(dirPath) == <<"A", BIT_JSONC>>

\* path.join(dirPath, BIT_JSONC): a path is the pair <<directory, file name>>.
composeBitJsoncPath(dirPath) == <<dirPath, BIT_JSONC>>

\* ---------------------------------------------------------- override table

\* A ConsumerOverridesOfComponent record: an optional env object and the
\* remaining config key/values.
EmptyRec == [hasEnv |-> FALSE, env |-> EmptyObj, config |-> EmptyObj]

Matches(pattern, componentId) == pattern = "*" \/ pattern = componentId

\* Later matches shallow-override earlier ones, field by field.
MergeRec(earlier, later) ==
  [hasEnv |-> earlier.hasEnv \/ later.hasEnv,
   env    |-> IF later.hasEnv THEN later.env ELSE earlier.env,
   config |-> later.config @@ earlier.config]

RECURSIVE MergeMatching(_, _, _)
MergeMatching(table, componentId, acc) ==
  IF table = <<>> THEN acc
  ELSE MergeMatching(Tail(table), componentId,
                     IF Matches(Head(table).pattern, componentId)
                     THEN MergeRec(acc, Head(table).rec) ELSE acc)

\* ConsumerOverrides.getOverrideComponentData: a fresh merged record, the
\* empty record when nothing matches.
getOverrideComponentData(table, componentId) ==
  MergeMatching(table, componentId, EmptyRec)

\* ConsumerOverrides.load: a missing components section is the empty table.
ConsumerOverridesLoad(data) ==
  IF "components" \in DOMAIN data THEN data["components"] ELSE <<>>

ModernTable ==
  << [pattern |-> "*",
      rec |-> [hasEnv |-> TRUE, env |-> ("compiler" :> "C2"),
               config |-> ("deps" :> "m")]],
     [pattern |-> "x",
      rec |-> [hasEnv |-> TRUE, env |-> ("tester" :> "T2"),
               config |-> EmptyObj]] >>

LegacyTable ==
  << [pattern |-> "*",
      rec |-> [hasEnv |-> FALSE, env |-> EmptyObj,
               config |-> ("deps" :> "k")]],
     [pattern |-> "y",
      rec |-> [hasEnv |-> TRUE, env |-> ("compiler" :> "C3"),
               config |-> ("deps" :> "l")]] >>

\* ----------------------------------------------------------- legacy bridge

\* The legacy documents a directory may hold: root compiler and tester, an
\* optional override section and a root-level default directory.
LegacyDocs ==
  { [compiler |-> "C", tester |-> "T", hasOverrides |-> TRUE,
     overrides |-> LegacyTable, componentsDefaultDirectory |-> "components"],
    [compiler |-> Undef, tester |-> "T", hasOverrides |-> FALSE,
     overrides |-> <<>>, componentsDefaultDirectory |-> "src"] }

NoLegacyDoc ==
  [compiler |-> Undef, tester |-> Undef, hasOverrides |-> FALSE,
   overrides |-> <<>>, componentsDefaultDirectory |-> Undef]

\* The LegacyWorkspaceConfig object loaded from (or written to) a directory.
LegacyObject(dir, doc) ==
  [path |-> <<dir, LEGACY_FILE>>, compiler |-> doc.compiler,
   tester |-> doc.tester, hasOverrides |-> doc.hasOverrides,
   overrides |-> doc.overrides,
   componentsDefaultDirectory |-> doc.componentsDefaultDirectory]

NoLegacy == LegacyObject(NoDir, NoLegacyDoc)

LegacyDocOf(legacy) ==
  [compiler |-> legacy.compiler, tester |-> legacy.tester,
   hasOverrides |-> legacy.hasOverrides, overrides |-> legacy.overrides,
   componentsDefaultDirectory |-> legacy.componentsDefaultDirectory]

\* LegacyWorkspaceConfig.toPlainObject: the snapshot read for the env fallback.
toPlainObject(legacy) ==
  [env |-> [compiler |-> legacy.compiler, tester |-> legacy.tester],
   componentsDefaultDirectory |-> legacy.componentsDefaultDirectory]

\* ------------------------------------------------------ workspace settings

SettingKeyOrder == <<"defaultScope", "componentsDefaultDirectory", "lang", "workspace">>
SettingKeys == {SettingKeyOrder[i] : i \in DOMAIN SettingKeyOrder}

WorkspaceSettingsFromObject(data) ==
  IF "workspace" \in DOMAIN data THEN data["workspace"] ELSE EmptyObj

WorkspaceSettingsFromLegacyConfig(legacy) ==
  ("componentsDefaultDirectory" :> legacy.componentsDefaultDirectory)

\* Two settings objects are equal when every property read agrees.
SameSettings(s, t) == \A k \in SettingKeys : Get(s, k) = Get(t, k)

\* ------------------------------------------------- comment-json documents

TopKeyOrder == <<"$schema", "$schemaVersion", "workspace", "components">>

\* The keys of obj as they are written out: in order, without the properties
\* whose value is undefined.
RECURSIVE WrittenKeys(_, _)
WrittenKeys(order, obj) ==
  IF order = <<>> THEN <<>>
  ELSE (IF Head(order) \in DOMAIN obj /\ obj[Head(order)] # Undef
        THEN <<Head(order)>> ELSE <<>>) \o WrittenKeys(Tail(order), obj)

StringifyObject(obj) ==
  LET ks == WrittenKeys(SettingKeyOrder, obj)
  IN [i \in DOMAIN ks |-> <<ks[i], obj[ks[i]]>>]

StringifyTable(table) ==
  [i \in DOMAIN table |-> <<table[i].pattern, table[i].rec>>]

RECURSIVE TopKeys(_, _)
TopKeys(order, data) ==
  IF order = <<>> THEN <<>>
  ELSE (IF Head(order) \in DOMAIN data THEN <<Head(order)>> ELSE <<>>)
       \o TopKeys(Tail(order), data)

\* stringify(data, undefined, 2): the text of a document, one entry
\* <<key, text of the value>> per written key.
stringify(data) ==
  LET ks == TopKeys(TopKeyOrder, data)
  IN [i \in DOMAIN ks |->
        <<ks[i],
          IF ks[i] = "workspace" THEN StringifyObject(data[ks[i]])
          ELSE IF ks[i] = "components" THEN StringifyTable(data[ks[i]])
          ELSE <<data[ks[i]]>> >>]

\* Text the parser rejects.
Garbage == << <<"{">> >>

\* parse succeeds on a text made of <<key, value text>> entries.
ParseOk(text) == \A i \in DOMAIN text : Len(text[i]) = 2

LastIndex(t, k) ==
  CHOOSE i \in DOMAIN t : t[i][1] = k /\ \A j \in DOMAIN t : t[j][1] = k => j <= i

ParseObject(t) == [k \in {t[i][1] : i \in DOMAIN t} |-> t[LastIndex(t, k)][2]]

ParseTable(t) == [i \in DOMAIN t |-> [pattern |-> t[i][1], rec |-> t[i][2]]]

\* parse(text) of a text that ParseOk accepts.
parse(text) ==
  [k \in {text[i][1] : i \in DOMAIN text} |->
     LET v == text[LastIndex(text, k)][2]
     IN IF k = "workspace" THEN ParseObject(v)
        ELSE IF k = "components" THEN ParseTable(v)
        ELSE v[1]]

\* assign(target, source): the own keys of source are copied over target.
assign(target, source) ==
  [k \in DOMAIN target \cup DOMAIN source |->
     IF k \in DOMAIN source THEN source[k] ELSE target[k]]

\* The text of workspace-template.jsonc.
TemplateText ==
  << <<"$schema", <<"workspace-schema.json">> >>,
     <<"$schemaVersion", <<"1.0.0">> >>,
     <<"workspace", << <<"defaultScope", "my-scope">>,
                       <<"componentsDefaultDirectory", "components">> >> >> >>

\* ---------------------------------------------------------------- inputs

\* Modern payloads handed to the constructor and to fromObject, and found in
\* the bit.jsonc files the directories start with.
W0 == ("defaultScope" :> "s") @@ ("lang" :> "ts")
P0 == ("$schema" :> "workspace-schema.json") @@ ("$schemaVersion" :> "1.0.0")
      @@ ("workspace" :> W0) @@ ("components" :> ModernTable)
P1 == ("$schema" :> "workspace-schema.json") @@ ("$schemaVersion" :> "1.0.0")
Payloads == {P0, P1}

\* The initProps handed to create and ensure: none, a workspace section that
\* sets one of the template's two fields, and one with an undefined field
\* plus a components section.
Props0 == EmptyObj
Props1 == ("workspace" :> ("defaultScope" :> "mine"))
Props2 == ("workspace" :> (("defaultScope" :> Undef) @@ ("componentsDefaultDirectory" :> "d")))
          @@ ("components" :> ModernTable)
InitProps == {Props0, Props1, Props2}

\* ------------------------------------------------------------ file system

NoFile == [exists |-> FALSE, text |-> <<>>]
File(text) == [exists |-> TRUE, text |-> text]
NoLegacyFile == [exists |-> FALSE, doc |-> NoLegacyDoc]
LegacyFile(doc) == [exists |-> TRUE, doc |-> doc]

\* fs.pathExists / fs.readFile on the pair <<directory, file name>>.
pathExists(fsys, p) ==
  /\ Len(p) = 2
  /\ p[1] \in Dirs
  /\ \/ p[2] = BIT_JSONC /\ fsys[p[1]].jsonc.exists
     \/ p[2] = LEGACY_FILE /\ fsys[p[1]].legacy.exists

readFile(fsys, p) == fsys[p[1]].jsonc.text

pathHasBitJsonc(fsys, dirPath) == pathExists(fsys, composeBitJsoncPath(dirPath))

\* LegacyWorkspaceConfig.loadIfExist(dirPath): the legacy file of dirPath.
LegacyLoadIfExist(fsys, dirPath) == fsys[dirPath].legacy

\* --------------------------------------------------------- WorkspaceConfig

\* No instance (undefined).
NoConfig ==
  [exists |-> FALSE, hasData |-> FALSE, data |-> EmptyObj, hasLegacy |-> FALSE,
   legacy |-> NoLegacy, workspaceSettings |-> EmptyObj, _path |-> EmptyPath,
   fresh |-> FALSE, initProps |-> EmptyObj, ensuredFor |-> NoDir]

\* constructor(data?, legacyConfig?).  fresh, initProps and ensuredFor are
\* history: whether the instance was synthesized from the template, from
\* which initProps, and the directory for which ensure did it (NoDir: none).
NewWorkspaceConfig(hasData, data, hasLegacy, legacy) ==
  [exists |-> TRUE,
   hasData |-> hasData, data |-> IF hasData THEN data ELSE EmptyObj,
   hasLegacy |-> hasLegacy, legacy |-> IF hasLegacy THEN legacy ELSE NoLegacy,
   workspaceSettings |-> IF hasData THEN WorkspaceSettingsFromObject(data)
                         ELSE WorkspaceSettingsFromLegacyConfig(legacy),
   _path |-> EmptyPath,
   fresh |-> FALSE, initProps |-> EmptyObj, ensuredFor |-> NoDir]

\* get path(): _path || legacyConfig?.path || ''.
pathOf(inst) ==
  IF inst._path # EmptyPath THEN inst._path
  ELSE IF inst.hasLegacy /\ inst.legacy.path # EmptyPath THEN inst.legacy.path
  ELSE EmptyPath

fromLegacyConfig(legacy) == NewWorkspaceConfig(FALSE, EmptyObj, TRUE, legacy)

fromObject(data) == NewWorkspaceConfig(TRUE, data, FALSE, NoLegacy)

\* Faulty variant of create: the arguments of assign are swapped, so the
\* template's values win over the props.
createTemplateWins(props, dirPath) ==
  LET template == parse(TemplateText)
      merged == assign(props, template)
      instance == [fromObject(merged) EXCEPT !.fresh = TRUE, !.initProps = props]
  IN IF dirPath # NoDir
     THEN [instance EXCEPT !._path = composeBitJsoncPath(dirPath)]
     ELSE instance

\* create(props, dirPath?).
create(props, dirPath) ==
  LET template == parse(TemplateText)
      merged == assign(template, props)
      instance == [fromObject(merged) EXCEPT !.fresh = TRUE, !.initProps = props]
  IN IF dirPath # NoDir
     THEN [instance EXCEPT !._path = composeBitJsoncPath(dirPath)]
     ELSE instance

\* get componentsConfig(): the table, or none for a legacy config without
\* an override section (and for an instance with neither payload).
componentsConfig(inst) ==
  IF inst.hasData THEN [has |-> TRUE, table |-> ConsumerOverridesLoad(inst.data)]
  ELSE IF inst.hasLegacy
       THEN [has |-> inst.legacy.hasOverrides, table |-> inst.legacy.overrides]
       ELSE [has |-> FALSE, table |-> <<>>]

\* _legacyPlainObject().
legacyPlainObject(inst) ==
  [has |-> inst.hasLegacy, plain |-> toPlainObject(inst.legacy)]

\* The record the override table gives getComponentConfig to start from.
overrideRecord(inst, componentId) ==
  LET cc == componentsConfig(inst)
  IN IF cc.has THEN getOverrideComponentData(cc.table, componentId) ELSE EmptyRec

\* Faulty variant of getComponentConfig: the legacy root envs win over the
\* override record.
getComponentConfigLegacyWins(inst, componentId) ==
  LET config == overrideRecord(inst, componentId)
      plainLegacy == legacyPlainObject(inst)
  IN IF plainLegacy.has
     THEN LET env == IF config.hasEnv THEN config.env ELSE EmptyObj
          IN [config EXCEPT
                !.hasEnv = TRUE,
                !.env = ("compiler" :> OrElse(plainLegacy.plain.env.compiler, Get(env, "compiler")))
                        @@ ("tester" :> OrElse(plainLegacy.plain.env.tester, Get(env, "tester")))
                        @@ env]
     ELSE config

\* getComponentConfig(componentId).
getComponentConfig(inst, componentId) ==
  LET config == overrideRecord(inst, componentId)
      plainLegacy == legacyPlainObject(inst)
  IN IF plainLegacy.has
     THEN LET env == IF config.hasEnv THEN config.env ELSE EmptyObj
          IN [config EXCEPT
                !.hasEnv = TRUE,
                !.env = ("compiler" :> OrElse(Get(env, "compiler"), plainLegacy.plain.env.compiler))
                        @@ ("tester" :> OrElse(Get(env, "tester"), plainLegacy.plain.env.tester))
                        @@ env]
     ELSE config

\* A virtual file record; none when toVinyl returns undefined.
NoVinyl == [has |-> FALSE, legacy |-> FALSE, base |-> NoDir, path |-> EmptyPath, contents |-> <<>>]

\* LegacyWorkspaceConfig.toVinyl({ workspaceDir }).
legacyToVinyl(legacy, workspaceDir) ==
  [has |-> TRUE, legacy |-> TRUE, base |-> workspaceDir,
   path |-> IF workspaceDir # NoDir THEN <<workspaceDir, LEGACY_FILE>> ELSE legacy.path,
   contents |-> <<>>]

\* toVinyl(workspaceDir).
toVinyl(inst, workspaceDir) ==
  IF inst.hasData
  THEN [has |-> TRUE, legacy |-> FALSE, base |-> workspaceDir,
        path |-> IF workspaceDir # NoDir THEN composeBitJsoncPath(workspaceDir)
                 ELSE pathOf(inst),
        contents |-> stringify(inst.data)]
  ELSE IF inst.hasLegacy THEN legacyToVinyl(inst.legacy, workspaceDir)
  ELSE NoVinyl

\* Values of the object getCoreExtensionsConfig returns: a setting, or the
\* object of picked settings.
StrVal(s) == [tag |-> "string", str |-> s, obj |-> EmptyObj]
ObjVal(o) == [tag |-> "object", str |-> "", obj |-> o]

workspaceExtPropNames == {"defaultScope", "componentsDefaultDirectory"}

\* pick and omit of ramda on an object.
pick(names, obj) == [k \in names \cap DOMAIN obj |-> obj[k]]
omit(names, obj) == [k \in DOMAIN obj \ names |-> obj[k]]

\* getCoreExtensionsConfig(): omit, then result.workspace = the picked ones.
getCoreExtensionsConfig(inst) ==
  LET workspaceConfig == inst.workspaceSettings
      workspaceExtProps == pick(workspaceExtPropNames, workspaceConfig)
      result == omit(workspaceExtPropNames, workspaceConfig)
  IN [k \in DOMAIN result \cup {"workspace"} |->
        IF k = "workspace" THEN ObjVal(workspaceExtProps) ELSE StrVal(result[k])]

\* ------------------------------------------------------------------ state
\*
\* fs       the files of each directory: bit.jsonc and the legacy file
\* cfg      the WorkspaceConfig each caller holds (NoConfig: none yet)
\* call     each caller's asynchronous call: its operation, its position
\*          between two awaits, its locals, and a record of what it did
\* out      the result of the last synchronous query
\* pending  the legacy writes issued by write and not yet on disk
\* written  for each directory, which instance's data its bit.jsonc holds
\* budget   the number of counted operations the run may still start

NoOut == [op |-> "none", who |-> "", id |-> "", dir |-> NoDir, comp |-> EmptyRec,
          ext |-> EmptyObj, vinyl |-> NoVinyl]

\* done: a write persisted bit.jsonc here; fresh, initProps: the instance
\* last written was synthesized from the template with these initProps;
\* ensured: some write persisted here an instance ensure synthesized for
\* this directory.
NotWritten == [done |-> FALSE, fresh |-> FALSE, initProps |-> EmptyObj, ensured |-> FALSE]

\* snap and held are the file system and the caller's instance when the call
\* started; touched are the directories other actors changed since then.
IdleCall ==
  [op |-> "none", pc |-> "idle", dir |-> NoDir, props |-> EmptyObj,
   jsoncExist |-> FALSE, outcome |-> "none", file |-> NoVinyl,
   legacyConsulted |-> FALSE, legacyRet |-> NoLegacyFile,
   parses |-> 0, persists |-> 0, legacyWrites |-> 0, usedTemplate |-> FALSE,
   snap |-> <<>>, held |-> NoConfig, touched |-> {}]

\* The states a directory may start in.
InitDirStatesA ==
  { [jsonc |-> j, legacy |-> l] :
      j \in {NoFile, File(Garbage), File(stringify(P0))},
      l \in {NoLegacyFile} \cup {LegacyFile(d) : d \in LegacyDocs} }

InitDirStatesB ==
  { [jsonc |-> NoFile, legacy |-> NoLegacyFile] }

Init ==
  /\ \E a \in InitDirStatesA, b \in InitDirStatesB :
       fs = [d \in Dirs |-> IF d = "A" THEN a ELSE b]
  /\ cfg = [c \in Callers |-> NoConfig]
  /\ call = [c \in Callers |-> IdleCall]
  /\ out = NoOut
  /\ pending = {}
  /\ written = [d \in Dirs |-> NotWritten]
  /\ budget = MaxCalls

Running(c) == call[c].pc \notin {"idle", "done"}

\* Another actor changed directory d: every call that has started notes it.
Touch(calls, d, except) ==
  [c \in Callers |->
     IF c # except /\ calls[c].pc # "idle"
     THEN [calls[c] EXCEPT !.touched = @ \cup {d}]
     ELSE calls[c]]

\* ------------------------------------------------- synchronous operations

\* new WorkspaceConfig(data, legacyConfig) with at least one argument given
\* (the settings of an absent legacy config are not defined by the source).
Construct(c) ==
  /\ ~Running(c)
  /\ budget > 0
  /\ budget' = budget - 1
  /\ \E hasData \in BOOLEAN, hasLegacy \in BOOLEAN, data \in Payloads,
        d \in Dirs, doc \in LegacyDocs :
       /\ hasData \/ hasLegacy
       /\ cfg' = [cfg EXCEPT ![c] =
                    NewWorkspaceConfig(hasData, data, hasLegacy, LegacyObject(d, doc))]
  /\ call' = [call EXCEPT ![c] = IdleCall]
  /\ out' = NoOut
  /\ UNCHANGED <<fs, pending, written>>

FromObject(c) ==
  /\ ~Running(c)
  /\ budget > 0
  /\ budget' = budget - 1
  /\ \E data \in Payloads : cfg' = [cfg EXCEPT ![c] = fromObject(data)]
  /\ call' = [call EXCEPT ![c] = IdleCall]
  /\ out' = NoOut
  /\ UNCHANGED <<fs, pending, written>>

FromLegacyConfig(c) ==
  /\ ~Running(c)
  /\ budget > 0
  /\ budget' = budget - 1
  /\ \E d \in Dirs, doc \in LegacyDocs :
       cfg' = [cfg EXCEPT ![c] = fromLegacyConfig(LegacyObject(d, doc))]
  /\ call' = [call EXCEPT ![c] = IdleCall]
  /\ out' = NoOut
  /\ UNCHANGED <<fs, pending, written>>

Create(c) ==
  /\ ~Running(c)
  /\ budget > 0
  /\ budget' = budget - 1
  /\ \E props \in InitProps, dirPath \in Dirs \cup {NoDir} :
       cfg' = [cfg EXCEPT ![c] = create(props, dirPath)]
  /\ call' = [call EXCEPT ![c] = IdleCall]
  /\ out' = NoOut
  /\ UNCHANGED <<fs, pending, written>>

\* set path(configPath).
SetPath(c) ==
  /\ ~Running(c)
  /\ budget > 0
  /\ budget' = budget - 1
  /\ cfg[c].exists
  /\ \E d \in Dirs : cfg' = [cfg EXCEPT ![c]._path = composeBitJsoncPath(d)]
  /\ call' = [call EXCEPT ![c] = IdleCall]
  /\ out' = NoOut
  /\ UNCHANGED <<fs, pending, written>>

GetComponentConfig(c) ==
  /\ ~Running(c)
  /\ cfg[c].exists
  /\ \E id \in ComponentIds :
       out' = [NoOut EXCEPT !.op = "getComponentConfig", !.who = c, !.id = id,
                            !.comp = getComponentConfig(cfg[c], id)]
  /\ call' = [call EXCEPT ![c] = IdleCall]
  /\ UNCHANGED <<fs, cfg, pending, written, budget>>

GetCoreExtensionsConfig(c) ==
  /\ ~Running(c)
  /\ cfg[c].exists
  /\ out' = [NoOut EXCEPT !.op = "getCoreExtensionsConfig", !.who = c,
                          !.ext = getCoreExtensionsConfig(cfg[c])]
  /\ call' = [call EXCEPT ![c] = IdleCall]
  /\ UNCHANGED <<fs, cfg, pending, written, budget>>

ToVinyl(c) ==
  /\ ~Running(c)
  /\ cfg[c].exists
  /\ \E workspaceDir \in Dirs \cup {NoDir} :
       out' = [NoOut EXCEPT !.op = "toVinyl", !.who = c, !.dir = workspaceDir,
                            !.vinyl = toVinyl(cfg[c], workspaceDir)]
  /\ call' = [call EXCEPT ![c] = IdleCall]
  /\ UNCHANGED <<fs, cfg, pending, written, budget>>

\* ------------------------------------------------ loadIfExist and ensure

StartCall(c, op, dir, props) ==
  /\ ~Running(c)
  /\ budget > 0
  /\ budget' = budget - 1
  /\ out' = NoOut
  /\ call' = [call EXCEPT ![c] =
                [IdleCall EXCEPT !.op = op, !.dir = dir, !.props = props,
                                 !.snap = fs, !.held = cfg[c],
                                 !.pc = IF op = "write" THEN "write" ELSE "probe"]]

CallLoadIfExist(c) ==
  /\ \E dir \in Dirs : StartCall(c, "loadIfExist", dir, EmptyObj)
  /\ UNCHANGED <<fs, cfg, pending, written>>

CallEnsure(c) ==
  /\ \E dir \in Dirs, props \in InitProps : StartCall(c, "ensure", dir, props)
  /\ UNCHANGED <<fs, cfg, pending, written>>

\* Faulty variant of afterProbe: the legacy loader is asked in every case.
afterProbeLegacyAlways(jsoncExist) == "legacy"

\* Where loadIfExist goes after await pathHasBitJsonc(dirPath).
afterProbe(jsoncExist) == IF jsoncExist THEN "read" ELSE "legacy"

\* loadIfExist up to the answer of pathHasBitJsonc.
ProbeBitJsonc(c) ==
  /\ call[c].pc = "probe"
  /\ LET jsoncExist == pathHasBitJsonc(fs, call[c].dir)
     IN call' = [call EXCEPT ![c].jsoncExist = jsoncExist,
                             ![c].pc = afterProbe(jsoncExist)]
  /\ UNCHANGED <<fs, cfg, out, pending, written, budget>>

\* Faulty variant of loadFromBitJsonc: a parse failure is swallowed and the
\* template is used instead.
loadFromBitJsoncFallback(content) ==
  IF ParseOk(content)
  THEN [outcome |-> "config", instance |-> fromObject(parse(content))]
  ELSE [outcome |-> "config", instance |-> create(EmptyObj, NoDir)]

\* _loadFromBitJsonc(bitJsoncPath) once readFile has answered: the parsed
\* instance, or the InvalidConfigFile error.
loadFromBitJsonc(content) ==
  IF ParseOk(content)
  THEN [outcome |-> "config", instance |-> fromObject(parse(content))]
  ELSE [outcome |-> "InvalidConfigFile", instance |-> NoConfig]

\* The jsoncExist branch of loadIfExist: instance.path = jsoncPath.
loadModern(content, jsoncPath) ==
  LET loaded == loadFromBitJsonc(content)
  IN IF loaded.outcome = "config"
     THEN [loaded EXCEPT !.instance._path = jsoncPath]
     ELSE loaded

\* The other branch: what loadIfExist returns once the legacy loader has
\* answered.
wrapLegacy(legacyRet, dir) ==
  IF legacyRet.exists
  THEN [outcome |-> "config", instance |-> fromLegacyConfig(LegacyObject(dir, legacyRet.doc))]
  ELSE [outcome |-> "undefined", instance |-> NoConfig]

\* Faulty variant of ensureResult: a config that was found is recreated from
\* the template all the same.
ensureResultRecreate(loaded, props, dirPath) ==
  IF loaded.outcome \in {"undefined", "config"}
  THEN [outcome |-> "config",
        instance |-> [create(props, dirPath) EXCEPT !.ensuredFor = dirPath],
        usedTemplate |-> TRUE]
  ELSE [outcome |-> loaded.outcome, instance |-> loaded.instance,
        usedTemplate |-> FALSE]

\* What ensure makes of what loadIfExist returned (an error propagates).
ensureResult(loaded, props, dirPath) ==
  IF loaded.outcome = "undefined"
  THEN [outcome |-> "config",
        instance |-> [create(props, dirPath) EXCEPT !.ensuredFor = dirPath],
        usedTemplate |-> TRUE]
  ELSE [outcome |-> loaded.outcome, instance |-> loaded.instance,
        usedTemplate |-> FALSE]

\* What the call returns: loadIfExist its own result, ensure ensureResult.
returnOf(op, loaded, props, dirPath) ==
  IF op = "ensure" THEN ensureResult(loaded, props, dirPath)
  ELSE [outcome |-> loaded.outcome, instance |-> loaded.instance,
        usedTemplate |-> FALSE]

\* loadIfExist from the answer of readFile to the return (or throw) of the
\* call.
ReadBitJsonc(c) ==
  /\ call[c].pc = "read"
  /\ LET jsoncPath == composeBitJsoncPath(call[c].dir)
         loaded == loadModern(readFile(fs, jsoncPath), jsoncPath)
         ret == returnOf(call[c].op, loaded, call[c].props, call[c].dir)
     IN /\ call' = [call EXCEPT ![c].pc = "done", ![c].outcome = ret.outcome,
                                ![c].parses = @ + 1,
                                ![c].usedTemplate = ret.usedTemplate]
        /\ cfg' = IF ret.outcome = "config" THEN [cfg EXCEPT ![c] = ret.instance] ELSE cfg
  /\ UNCHANGED <<fs, out, pending, written, budget>>

\* loadIfExist from the answer of LegacyWorkspaceConfig.loadIfExist to the
\* return of the call.
LoadLegacy(c) ==
  /\ call[c].pc = "legacy"
  /\ LET legacyRet == LegacyLoadIfExist(fs, call[c].dir)
         loaded == wrapLegacy(legacyRet, call[c].dir)
         ret == returnOf(call[c].op, loaded, call[c].props, call[c].dir)
     IN /\ call' = [call EXCEPT ![c].pc = "done", ![c].outcome = ret.outcome,
                                ![c].legacyConsulted = TRUE,
                                ![c].legacyRet = legacyRet,
                                ![c].usedTemplate = ret.usedTemplate]
        /\ cfg' = IF ret.outcome = "config" THEN [cfg EXCEPT ![c] = ret.instance] ELSE cfg
  /\ UNCHANGED <<fs, out, pending, written, budget>>

\* ------------------------------------------------------------------ write

CallWrite(c) ==
  /\ cfg[c].exists
  /\ \E workspaceDir \in Dirs : StartCall(c, "write", workspaceDir, EmptyObj)
  /\ UNCHANGED <<fs, cfg, pending, written>>

\* Faulty variant of writeDelegates: write always goes to the legacy config.
writeDelegatesAlways(inst) == TRUE

\* Whether write hands the persistence to the legacy config: this.data is
\* unset (a set data always yields a file, and write returns after it).
writeDelegates(inst) == ~inst.hasData

\* write up to persistAllToFS (modern data), or all of it (no modern data:
\* legacyConfig?.write is called and not awaited).
WriteBegin(c) ==
  /\ call[c].pc = "write"
  /\ IF ~writeDelegates(cfg[c])
     THEN /\ call' = [call EXCEPT ![c].pc = "persist",
                                  ![c].file = toVinyl(cfg[c], call[c].dir)]
          /\ UNCHANGED pending
     ELSE /\ call' = [call EXCEPT ![c].pc = "done", ![c].outcome = "void",
                                  ![c].legacyWrites =
                                     IF cfg[c].hasLegacy THEN @ + 1 ELSE @]
          /\ pending' = IF cfg[c].hasLegacy
                        THEN pending \cup {[dir |-> call[c].dir,
                                            doc |-> LegacyDocOf(cfg[c].legacy)]}
                        ELSE pending
  /\ UNCHANGED <<fs, cfg, out, written, budget>>

\* DataToPersist.persistAllToFS with the one file added to it.
PersistAllToFS(c) ==
  /\ call[c].pc = "persist"
  /\ LET file == call[c].file
         d == file.path[1]
     IN /\ fs' = [fs EXCEPT ![d].jsonc = File(file.contents)]
        /\ written' = [written EXCEPT ![d] =
                         [done |-> TRUE, fresh |-> cfg[c].fresh,
                          initProps |-> cfg[c].initProps,
                          ensured |-> @.ensured \/ cfg[c].ensuredFor = d]]
        /\ call' = [Touch(call, d, c) EXCEPT ![c].pc = "done",
                                             ![c].outcome = "void",
                                             ![c].persists = @ + 1]
  /\ UNCHANGED <<cfg, out, pending, budget>>

\* A legacy write issued by write reaches the disk.
LegacyWriteLands ==
  /\ \E w \in pending :
       /\ fs' = [fs EXCEPT ![w.dir].legacy = LegacyFile(w.doc)]
       /\ pending' = pending \ {w}
       /\ call' = Touch(call, w.dir, "")
  /\ UNCHANGED <<cfg, out, written, budget>>

\* --------------------------------------------------------- specifications

AsyncStep(c) ==
  \/ CallLoadIfExist(c)
  \/ CallEnsure(c)
  \/ ProbeBitJsonc(c)
  \/ ReadBitJsonc(c)
  \/ LoadLegacy(c)
  \/ CallWrite(c)
  \/ WriteBegin(c)
  \/ PersistAllToFS(c)

SyncStep(c) ==
  \/ Construct(c)
  \/ FromObject(c)
  \/ FromLegacyConfig(c)
  \/ Create(c)
  \/ SetPath(c)
  \/ GetComponentConfig(c)
  \/ GetCoreExtensionsConfig(c)
  \/ ToVinyl(c)

\* One caller, who awaits each call before the next operation.
Next ==
  \/ AsyncStep("c1")
  \/ SyncStep("c1")
  \/ LegacyWriteLands

Spec == Init /\ [][Next]_vars

\* Two callers whose loadIfExist, ensure and write calls interleave at the
\* awaits.
ConcNext ==
  \/ \E c \in Callers : AsyncStep(c)
  \/ LegacyWriteLands

\* The callers start with a config each: one synthesized from the template, or
\* one wrapping a legacy config.
ConcConfigs ==
  { create(Props1, NoDir),
    fromLegacyConfig(LegacyObject("A", CHOOSE doc \in LegacyDocs : doc.compiler = "C")) }

ConcInit ==
  /\ \E a \in InitDirStatesA, b \in InitDirStatesB :
       fs = [d \in Dirs |-> IF d = "A" THEN a ELSE b]
  /\ cfg \in [Callers -> ConcConfigs]
  /\ call = [c \in Callers |-> IdleCall]
  /\ out = NoOut
  /\ pending = {}
  /\ written = [d \in Dirs |-> NotWritten]
  /\ budget = MaxConcCalls

ConcSpec == ConcInit /\ [][ConcNext]_vars

\* getCoreExtensionsConfig on every settings object over SettingKeys.
SettingValues == {"s", "d"}

AllSettings ==
  UNION { [keys -> SettingValues] : keys \in SUBSET SettingKeys }

PartInit ==
  /\ fs = [d \in Dirs |-> [jsonc |-> NoFile, legacy |-> NoLegacyFile]]
  /\ \E settings \in AllSettings :
       cfg = [c \in Callers |->
                IF c = "c1" THEN fromObject(("workspace" :> settings)) ELSE NoConfig]
  /\ call = [c \in Callers |-> IdleCall]
  /\ out = NoOut
  /\ pending = {}
  /\ written = [d \in Dirs |-> NotWritten]
  /\ budget = 0

PartNext == GetCoreExtensionsConfig("c1")

PartSpec == PartInit /\ [][PartNext]_vars

\* ------------------------------------------------------------ properties

Done(c, ops) == call[c].pc = "done" /\ call[c].op \in ops

\* The directory of the call of c as it was when the call started.
Before(c) == call[c].snap[call[c].dir]

\* The directories no other actor changed while the call of c ran are as the
\* call found them (own: the call's own directory is left out).
FrameKept(c, own) ==
  \A e \in Dirs \ (call[c].touched \cup own) : fs[e] = call[c].snap[e]

\* C1: loadIfExist(dir) resolves by fixed precedence.  When bit.jsonc exists
\* under dir the legacy loader is never asked and (the content parsing) the
\* result holds the parsed payload, no legacy config, and the path
\* dir/bit.jsonc; when it is absent and the legacy loader returns a value the
\* result wraps that value and holds no modern payload; when the loader
\* returns nothing the result is undefined and no error is raised.  The
\* loader's answer is the legacy file of dir.
C1_LoadPrecedence ==
  \A c \in Callers :
    Done(c, {"loadIfExist"}) =>
      LET d == call[c].dir
          jsonc == Before(c).jsonc
          ret == call[c].legacyRet
      IN /\ jsonc.exists =>
              /\ ~call[c].legacyConsulted
              /\ ParseOk(jsonc.text) =>
                   /\ call[c].outcome = "config"
                   /\ cfg[c].hasData
                   /\ cfg[c].data = parse(jsonc.text)
                   /\ ~cfg[c].hasLegacy
                   /\ cfg[c]._path = <<d, BIT_JSONC>>
         /\ ~jsonc.exists =>
              /\ call[c].legacyConsulted
              /\ d \notin call[c].touched => ret = Before(c).legacy
              /\ ret.exists =>
                   /\ call[c].outcome = "config"
                   /\ ~cfg[c].hasData
                   /\ cfg[c].hasLegacy
                   /\ cfg[c].legacy = LegacyObject(d, ret.doc)
              /\ ~ret.exists => call[c].outcome = "undefined"

\* A loadIfExist returned the modern config of a directory holding both files.
C1_Witness ==
  \E c \in Callers :
    /\ Done(c, {"loadIfExist"})
    /\ Before(c).jsonc.exists /\ ParseOk(Before(c).jsonc.text)
    /\ Before(c).legacy.exists
    /\ call[c].outcome = "config" /\ cfg[c].hasData

\* C2: when bit.jsonc exists and does not parse, loadIfExist and ensure fail
\* with InvalidConfigFile: no config is returned (the caller holds what it
\* held), the content is parsed once, neither the legacy loader nor the
\* template is used, and the file system is as the call found it.
C2_InvalidConfigFile ==
  \A c \in Callers :
    (/\ Done(c, {"loadIfExist", "ensure"})
     /\ Before(c).jsonc.exists
     /\ ~ParseOk(Before(c).jsonc.text)) =>
      /\ call[c].outcome = "InvalidConfigFile"
      /\ cfg[c] = call[c].held
      /\ call[c].parses = 1
      /\ ~call[c].legacyConsulted
      /\ ~call[c].usedTemplate
      /\ FrameKept(c, {})

\* An ensure failed on an unparsable bit.jsonc next to a legacy file.
C2_Witness ==
  \E c \in Callers :
    /\ Done(c, {"ensure"})
    /\ Before(c).jsonc.exists /\ ~ParseOk(Before(c).jsonc.text)
    /\ Before(c).legacy.exists
    /\ call[c].outcome = "InvalidConfigFile"

\* C3: for a config wrapping a legacy config with root compiler C and tester
\* T, getComponentConfig(X).env.compiler is the override record's
\* env.compiler when it sets one and C otherwise, and likewise for env.tester
\* with T.
C3_EnvFallback ==
  out.op = "getComponentConfig" =>
    LET inst == cfg[out.who]
        rec == overrideRecord(inst, out.id)
    IN inst.hasLegacy =>
         /\ Get(out.comp.env, "compiler") =
              IF Get(rec.env, "compiler") # Undef
              THEN Get(rec.env, "compiler") ELSE inst.legacy.compiler
         /\ Get(out.comp.env, "tester") =
              IF Get(rec.env, "tester") # Undef
              THEN Get(rec.env, "tester") ELSE inst.legacy.tester

\* A legacy config with root compiler C and tester T, and a component whose
\* override sets the compiler and not the tester.
C3_Witness ==
  /\ out.op = "getComponentConfig"
  /\ cfg[out.who].hasLegacy /\ ~cfg[out.who].hasData
  /\ cfg[out.who].legacy.compiler = "C" /\ cfg[out.who].legacy.tester = "T"
  /\ Get(overrideRecord(cfg[out.who], out.id).env, "compiler") = "C3"
  /\ Get(out.comp.env, "compiler") = "C3"
  /\ Get(out.comp.env, "tester") = "T"

\* C4: getComponentConfig(X) changes nothing but env.compiler and env.tester
\* of the override record: the other fields are the record's, and for a
\* config holding modern data the result is the record itself.
C4_OnlyEnvChanges ==
  out.op = "getComponentConfig" =>
    LET inst == cfg[out.who]
        rec == overrideRecord(inst, out.id)
    IN /\ out.comp.config = rec.config
       /\ \A k \in (DOMAIN rec.env \cup DOMAIN out.comp.env) \ {"compiler", "tester"} :
            Get(out.comp.env, k) = Get(rec.env, k)
       /\ inst.hasData => out.comp = rec

\* C5: a write performs at most one file write.  With modern data one file
\* is persisted, at workspaceDir/bit.jsonc and holding the serialized data,
\* and the legacy write is not invoked; with legacy data only nothing is
\* persisted here and the legacy write is invoked once.
C5_OneWrite ==
  \A c \in Callers :
    /\ call[c].persists + call[c].legacyWrites <= 1
    /\ Done(c, {"write"}) =>
         LET d == call[c].dir
         IN /\ cfg[c].hasData =>
                 /\ call[c].persists = 1 /\ call[c].legacyWrites = 0
                 /\ call[c].file.path = <<d, BIT_JSONC>>
                 /\ d \notin call[c].touched =>
                      fs[d].jsonc = File(stringify(cfg[c].data))
                 /\ FrameKept(c, {d})
            /\ (~cfg[c].hasData /\ cfg[c].hasLegacy) =>
                 /\ call[c].persists = 0 /\ call[c].legacyWrites = 1
                 /\ FrameKept(c, {})

\* A write of a config holding modern data has persisted its file.
C5_Witness ==
  \E c \in Callers :
    /\ Done(c, {"write"})
    /\ cfg[c].hasData /\ ~cfg[c].hasLegacy
    /\ call[c].persists = 1
    /\ fs[call[c].dir].jsonc = File(stringify(cfg[c].data))

\* C6: once a write has persisted to dir a config that ensure synthesized
\* for dir, every ensure(dir) returns the config loaded from the file of dir
\* and does not use the template, whatever its initProps.
C6_EnsureLoadsPersisted ==
  \A c \in Callers :
    (Done(c, {"ensure"}) /\ written[call[c].dir].ensured) =>
      /\ call[c].outcome = "config"
      /\ ~call[c].usedTemplate
      /\ call[c].parses = 1
      /\ ~cfg[c].fresh
      /\ cfg[c].data = parse(fs[call[c].dir].jsonc.text)

\* A second ensure, with initProps that differ from the persisted data.
C6_Witness ==
  \E c \in Callers :
    /\ Done(c, {"ensure"})
    /\ written[call[c].dir].ensured
    /\ call[c].props = Props2
    /\ written[call[c].dir].initProps = Props1
    /\ call[c].outcome = "config"

\* The workspace section of the template.
TemplateWorkspace == parse(TemplateText)["workspace"]

\* C7: when the bit.jsonc of dir was written from a config freshly created
\* with initProps, loadIfExist(dir) yields a config whose settings equal
\* initProps.workspace (the template's workspace section when initProps has
\* none) and whose path is dir/bit.jsonc.
C7_RoundTrip ==
  \A c \in Callers :
    (Done(c, {"loadIfExist"}) /\ written[call[c].dir].fresh) =>
      LET props == written[call[c].dir].initProps
      IN /\ call[c].outcome = "config"
         /\ SameSettings(cfg[c].workspaceSettings,
                         IF "workspace" \in DOMAIN props
                         THEN props["workspace"] ELSE TemplateWorkspace)
         /\ cfg[c]._path = <<call[c].dir, BIT_JSONC>>

\* A reload of a file written from a config created with a workspace section
\* that has an undefined field.
C7_Witness ==
  \E c \in Callers :
    /\ Done(c, {"loadIfExist"})
    /\ written[call[c].dir].fresh
    /\ written[call[c].dir].initProps = Props2
    /\ call[c].outcome = "config"

\* C8: every WorkspaceConfig holds exactly one of the modern payload and the
\* legacy payload, and its workspaceSettings is derived from the one it holds.
C8_ExactlyOnePayload ==
  \A c \in Callers :
    cfg[c].exists =>
      /\ cfg[c].hasData # cfg[c].hasLegacy
      /\ cfg[c].workspaceSettings =
           IF cfg[c].hasData THEN WorkspaceSettingsFromObject(cfg[c].data)
           ELSE WorkspaceSettingsFromLegacyConfig(cfg[c].legacy)

\* C9: getCoreExtensionsConfig partitions the settings: result.workspace holds
\* exactly the present ones of defaultScope and componentsDefaultDirectory,
\* every other settings field is at the top level with its value, and neither
\* of the two names is at the top level.
C9_Partition ==
  out.op = "getCoreExtensionsConfig" =>
    LET settings == cfg[out.who].workspaceSettings
        result == out.ext
    IN /\ "workspace" \in DOMAIN result
       /\ result["workspace"] =
            ObjVal([k \in workspaceExtPropNames \cap DOMAIN settings |-> settings[k]])
       /\ \A k \in DOMAIN settings \ workspaceExtPropNames :
            k \in DOMAIN result /\ result[k] = StrVal(settings[k])
       /\ workspaceExtPropNames \cap DOMAIN result = {}
       /\ DOMAIN result \subseteq DOMAIN settings \cup {"workspace"}

\* What a call returns when it runs on the file system fsys with nothing
\* else running.
AloneReturn(c, fsys) ==
  LET d == call[c].dir
      jsoncPath == composeBitJsoncPath(d)
      loaded == IF pathHasBitJsonc(fsys, d)
                THEN loadModern(readFile(fsys, jsoncPath), jsoncPath)
                ELSE wrapLegacy(LegacyLoadIfExist(fsys, d), d)
  IN returnOf(call[c].op, loaded, call[c].props, d)

\* C10: calls on different directories do not interfere.  A finished call
\* left every directory but its own as it found it, unless another actor
\* changed it; and when no other actor changed its own directory, a
\* loadIfExist or ensure returned what it returns alone on the file system
\* it started on, and its directory is unchanged, and a write left in its
\* directory what it leaves alone.
C10_NoInterference ==
  \A c \in Callers :
    Done(c, {"loadIfExist", "ensure", "write"}) =>
      LET d == call[c].dir
      IN /\ FrameKept(c, {d})
         /\ d \notin call[c].touched =>
              IF call[c].op = "write"
              THEN /\ call[c].outcome = "void"
                   /\ fs[d].legacy = call[c].snap[d].legacy
                   /\ fs[d].jsonc = IF call[c].held.hasData
                                    THEN File(stringify(call[c].held.data))
                                    ELSE call[c].snap[d].jsonc
              ELSE /\ fs[d] = call[c].snap[d]
                   /\ call[c].outcome = AloneReturn(c, call[c].snap).outcome
                   /\ cfg[c] = IF call[c].outcome = "config"
                               THEN AloneReturn(c, call[c].snap).instance
                               ELSE call[c].held

\* A loadIfExist or ensure on one directory finished with a config while
\* another caller's write changed the other directory.
C10_Witness ==
  \E c \in Callers :
    /\ Done(c, {"loadIfExist", "ensure"})
    /\ call[c].outcome = "config"
    /\ call[c].touched = Dirs \ {call[c].dir}
    /\ \E e \in call[c].touched : fs[e].jsonc # call[c].snap[e].jsonc

====
